---- MODULE Spec2Model ----
(***************************************************************************)
(* The logger facade of dubbo-go (common/logger/logger.go): the            *)
(* package-level logger slot, the getty logger slot it is forwarded to,    *)
(* InitLog / InitLoggerWithRolling / InitLogger / SetLogger / GetLogger /  *)
(* SetLoggerLevel, and the four zap cores a built logger routes records to.*)
(*                                                                         *)
(* Spec      the operations called one after another (one goroutine).      *)
(* SpecConc  two installing goroutines and one reading goroutine, the      *)
(*           unsynchronised two-word interface slots read and written one  *)
(*           machine word at a time.                                       *)
(***************************************************************************)
EXTENDS Integers, Sequences, FiniteSets, TLC

\* ------------------------------------------------------------------ bounds

\* zap loggers built in one run (the one built by init() included)
MaxBuilds == 2

\* ------------------------------------------------------------- zap levels

DebugLevel == -1
InfoLevel == 0
WarnLevel == 1
ErrorLevel == 2
FatalLevel == 5

Levels == DebugLevel..FatalLevel

\* the levels the Logger interface can emit: Debug, Info, Warn, Error, Fatal
RecordLevels == {DebugLevel, InfoLevel, WarnLevel, ErrorLevel, FatalLevel}

\* zapcore.Level is an int8: a difference of two levels wraps at 8 bits
Sub8(a, b) == (((a - b) + 128) % 256) - 128

\* ---------------------------------------------------- the sink predicates

\* infoLevel: the info file core's LevelEnablerFunc, L the AtomicLevel's value
infoLevel(level, L) ==
    level = InfoLevel /\ Sub8(Sub8(level, InfoLevel), L) > -1

warnLevel(level, L) ==
    level = WarnLevel /\ Sub8(WarnLevel, L) > -1

\* the error core gated on the record's own level
errorLevelOwnThreshold(level, L) ==
    level > WarnLevel /\ Sub8(level, L) > -1

errorLevel(level, L) ==
    level > WarnLevel /\ Sub8(WarnLevel, L) > -1

consoleLevel(level, L) ==
    Sub8(level, L) > -1

Sinks == {"info", "warn", "error", "console"}

\* zapCores behind zapcore.NewTee: the sinks a record of `level` is written to
zapCores(level, L) ==
    {s \in Sinks :
        \/ s = "info" /\ infoLevel(level, L)
        \/ s = "warn" /\ warnLevel(level, L)
        \/ s = "error" /\ errorLevel(level, L)
        \/ s = "console" /\ consoleLevel(level, L)}

\* -------------------------------------------------------- level name parse

LevelNames ==
    {"debug", "info", "warn", "error", "Warn", "", "trace"}

\* bytes.ToLower on the names above
ToLower(name) ==
    CASE name = "Warn" -> "warn"
      [] OTHER -> name

NoLevel == [ok |-> FALSE, level |-> InfoLevel]

\* zapcore.Level.unmarshalText: the exact spellings, "" standing for info
\* (dpanic and panic, which no call here names, left out)
unmarshalText(name) ==
    CASE name \in {"debug", "DEBUG"} -> [ok |-> TRUE, level |-> DebugLevel]
      [] name \in {"info", "INFO", ""} -> [ok |-> TRUE, level |-> InfoLevel]
      [] name \in {"warn", "WARN"} -> [ok |-> TRUE, level |-> WarnLevel]
      [] name \in {"error", "ERROR"} -> [ok |-> TRUE, level |-> ErrorLevel]
      [] name \in {"fatal", "FATAL"} -> [ok |-> TRUE, level |-> FatalLevel]
      [] OTHER -> NoLevel

\* l.Set(level): the name as written, then lower-cased
LevelSet(name) ==
    IF unmarshalText(name).ok THEN unmarshalText(name)
    ELSE unmarshalText(ToLower(name))

\* ------------------------------------------------------------------ paths

\* a path is a sequence of one-character strings
PathEmpty == <<>>
PathXml == <<"l", ".", "x", "m", "l">>
PathUpper == <<"l", ".", "Y", "M", "L">>
PathDotInDir == <<"d", ".", "y", "m", "l", "/", "f">>
PathTrailingDot == <<"l", ".", "y", "m", "l", ".">>
PathMissing == <<"n", ".", "y", "m", "l">>
PathDir == <<"d", ".", "y", "m", "l">>
PathBad == <<"b", ".", "y", "m", "l">>
PathLog == <<"l", ".", "y", "m", "l">>
PathWarn == <<"w", ".", "y", "m", "l">>
PathNoRolling == <<"r", ".", "y", "m", "l">>
PathEmptyDoc == <<"e", ".", "y", "m", "l">>
PathHidden == <<"c", "/", ".", "y", "m", "l">>

Paths ==
    {PathEmpty, PathXml, PathUpper, PathDotInDir, PathTrailingDot, PathMissing,
     PathDir, PathBad, PathLog, PathWarn, PathNoRolling, PathEmptyDoc, PathHidden}

YmlExt == <<".", "y", "m", "l">>

RECURSIVE ExtFrom(_, _)
ExtFrom(p, i) ==
    IF i < 1 \/ p[i] = "/" THEN <<>>
    ELSE IF p[i] = "." THEN SubSeq(p, i, Len(p))
    ELSE ExtFrom(p, i - 1)

\* path.Ext: from the last dot of the last element of the path
Ext(p) == ExtFrom(p, Len(p))

\* ------------------------------------------------------------ file system

\* RollingFileConfig{}: the zero value yaml.Unmarshal fills in
ZeroRolling ==
    [LogFilePath |-> "", ErrorFilename |-> "", WarnFilename |-> "",
     InfoFilename |-> "", MaxSize |-> 0, MaxBackups |-> 0, MaxAge |-> 0,
     Compress |-> FALSE]

\* a rolling section as a configuration file or a caller writes it
CustomRolling ==
    [LogFilePath |-> "/var/log", ErrorFilename |-> "e.log",
     WarnFilename |-> "w.log", InfoFilename |-> "i.log", MaxSize |-> 10,
     MaxBackups |-> 5, MaxAge |-> 7, Compress |-> TRUE]

\* the content of a configuration file: whether yaml.Unmarshal accepts it, the
\* logConfig section (level name, encoding; hasLevel FALSE when the key is
\* absent) and the rolling section (ZeroRolling when the key is absent)
Doc(parses, hasLevel, level, encoding, rolling) ==
    [parses |-> parses, hasLevel |-> hasLevel, level |-> level,
     encoding |-> encoding, rolling |-> rolling]

NoDoc == Doc(FALSE, FALSE, "", "", ZeroRolling)

\* the files the run finds on disk
FileSystem(p) ==
    CASE p = PathLog ->
            [kind |-> "file", doc |-> Doc(TRUE, TRUE, "debug", "console", CustomRolling)]
      [] p = PathWarn ->
            [kind |-> "file", doc |-> Doc(TRUE, TRUE, "warn", "json", CustomRolling)]
      [] p = PathNoRolling ->
            [kind |-> "file", doc |-> Doc(TRUE, TRUE, "info", "console", ZeroRolling)]
      [] p = PathEmptyDoc ->
            [kind |-> "file", doc |-> Doc(TRUE, FALSE, "", "", ZeroRolling)]
      [] p = PathBad -> [kind |-> "file", doc |-> NoDoc]
      [] p = PathDotInDir -> [kind |-> "file", doc |-> Doc(TRUE, TRUE, "debug", "console", CustomRolling)]
      [] p = PathDir -> [kind |-> "dir", doc |-> NoDoc]
      [] OTHER -> [kind |-> "absent", doc |-> NoDoc]

\* ioutil.ReadFile: the content, or the I/O failure text
ReadFile(p) ==
    LET f == FileSystem(p) IN
    CASE f.kind = "file" -> [ok |-> TRUE, doc |-> f.doc, err |-> <<>>]
      [] f.kind = "dir" ->
            [ok |-> FALSE, doc |-> NoDoc, err |-> <<"read", p, "is a directory">>]
      [] OTHER ->
            [ok |-> FALSE, doc |-> NoDoc,
             err |-> <<"open", p, "no such file or directory">>]

\* ----------------------------------------------------------------- errors

NoError == [code |-> "nil", fmt |-> "", args |-> <<>>]

ErrorCodes ==
    {"ConfigMissing", "ConfigExtensionInvalid", "ConfigReadError", "ConfigParseError"}

\* perrors.New / perrors.Errorf: the format and the values it embeds
Errorf(code, fmt, args) == [code |-> code, fmt |-> fmt, args |-> args]

\* ---------------------------------------------------------- logger values

\* a Logger interface value: nil, a *DubboLogger (zap logger `zap`, AtomicLevel
\* `cell`), the *zap.SugaredLogger inside one, or a caller's own backend
NilLogger == [kind |-> "nil", zap |-> 0, cell |-> 0]
CustomLogger == [kind |-> "custom", zap |-> 0, cell |-> 0]
DubboLoggerOf(z, c) == [kind |-> "dubbo", zap |-> z, cell |-> c]
SugarOf(z) == [kind |-> "sugar", zap |-> z, cell |-> 0]

\* logger.(OpsLogger): only *DubboLogger has SetLoggerLevel
IsOpsLogger(l) == l.kind = "dubbo"

\* ----------------------------------------------------------- configuration

\* *zap.Config: nil, or a config whose Level is the AtomicLevel `cell`
\* (0: AtomicLevel{}, no level set)
NilConf == [nil |-> TRUE, Level |-> 0, Encoding |-> ""]
ConfOf(cell, encoding) == [nil |-> FALSE, Level |-> cell, Encoding |-> encoding]

\* *RollingFileConfig: nil, or a value
NilRollingPtr == [nil |-> TRUE, val |-> ZeroRolling]
RollingPtr(r) == [nil |-> FALSE, val |-> r]

\* the default RollingFileConfig of InitLoggerWithRolling
DefaultRolling ==
    [LogFilePath |-> "./logs", ErrorFilename |-> "dubbo-error.log",
     WarnFilename |-> "dubbo-warn.log", InfoFilename |-> "dubbo-info.log",
     MaxSize |-> 30, MaxBackups |-> 1, MaxAge |-> 3, Compress |-> FALSE]

initLumberjackLogger(filename, fileConfig) ==
    [Filename |-> fileConfig.LogFilePath \o "/" \o filename,
     MaxSize |-> fileConfig.MaxSize, MaxBackups |-> fileConfig.MaxBackups,
     MaxAge |-> fileConfig.MaxAge, Compress |-> fileConfig.Compress]

\* zapLoggerConfig.Build: zap refuses a config whose encoding names no encoder
Build(cfg) == cfg.Encoding \in {"console", "json"}

\* ------------------------------------------------------------------ state

VARIABLES
    logger,        \* the package variable `logger`
    gettyLogger,   \* getty's logger slot, written by getty.SetLogger
    zapLoggers,    \* the zap loggers built so far: AtomicLevel and file sinks
    atomicLevels,  \* the AtomicLevel cells allocated so far: cell -> level
    status,        \* "running", "panicked" (a run-time panic) or "exited" (Fatal)
    lastOp,        \* the last call made: its arguments, result and effects
    cw,            \* SpecConc: the words of the two slots
    pc,            \* SpecConc: where each goroutine is
    reg            \* SpecConc: each goroutine's registers

seqVars == <<logger, gettyLogger, zapLoggers, atomicLevels, status, lastOp>>
concVars == <<cw, pc, reg>>
vars == <<logger, gettyLogger, zapLoggers, atomicLevels, status, lastOp, cw, pc, reg>>

\* the program state a handler reads and writes; installs counts the
\* assignments to `logger` made since the handler was entered
St(l, g, z, a, st, n) ==
    [logger |-> l, gettyLogger |-> g, zapLoggers |-> z, atomicLevels |-> a,
     status |-> st, installs |-> n]

Cur == St(logger, gettyLogger, zapLoggers, atomicLevels, status, 0)

\* zap.NewAtomicLevelAt / AtomicLevel.UnmarshalText: a new cell
NewCell(s) == Len(s.atomicLevels) + 1

\* --------------------------------------------------------------- handlers

\* getty.SetLogger(logger) forwarding a logger other than the one in the slot
gettySetLoggerStale(s) == s

\* getty.SetLogger(logger)
gettySetLogger(s) == [s EXCEPT !.gettyLogger = s.logger]

\* lumberjackRolling
ResolveRolling(rolling) ==
    IF rolling.nil THEN DefaultRolling ELSE rolling.val

\* InitLoggerWithRolling(conf, rolling)
InitLoggerWithRolling(s, conf, rolling) ==
    LET defaulted == conf.nil
        cell == IF defaulted THEN NewCell(s) ELSE conf.Level
        levels == IF defaulted THEN Append(s.atomicLevels, DebugLevel)
                  ELSE s.atomicLevels
        zapLoggerConfig == IF defaulted THEN ConfOf(cell, "console") ELSE conf
        lumberjackRolling == ResolveRolling(rolling)
        built ==
            [cell |-> cell,
             info |-> initLumberjackLogger(lumberjackRolling.InfoFilename, lumberjackRolling),
             warn |-> initLumberjackLogger(lumberjackRolling.WarnFilename, lumberjackRolling),
             error |-> initLumberjackLogger(lumberjackRolling.ErrorFilename, lumberjackRolling),
             rolling |-> lumberjackRolling]
    IN  IF ~Build(zapLoggerConfig)
        THEN \* zapLogger is nil: zapLogger.Sugar() dereferences it
             [s EXCEPT !.status = "panicked"]
        ELSE gettySetLogger(
                [s EXCEPT !.atomicLevels = levels,
                          !.zapLoggers = Append(@, built),
                          !.logger = DubboLoggerOf(Len(s.zapLoggers) + 1, cell),
                          !.installs = @ + 1])

\* InitLogger(conf)
InitLogger(s, conf) == InitLoggerWithRolling(s, conf, NilRollingPtr)

\* the result of a handler that returns a value
Ret(s, v) == [st |-> s, ret |-> v]

\* a failure path that returns its error without installing a logger
FallbackSkipped(s) == s

\* InitLoggerWithRolling(nil, nil) on each failure path of InitLog
Fallback(s) == InitLoggerWithRolling(s, NilConf, NilRollingPtr)

\* InitLog(logConfFile)
InitLog(s, logConfFile) ==
    IF logConfFile = <<>>
    THEN Ret(Fallback(s),
             Errorf("ConfigMissing", "log configure file name is nil", <<>>))
    ELSE IF Ext(logConfFile) # YmlExt
    THEN Ret(Fallback(s),
             Errorf("ConfigExtensionInvalid",
                    "log configure file name{%s} suffix must be .yml",
                    <<logConfFile>>))
    ELSE LET confFileStream == ReadFile(logConfFile) IN
    IF ~confFileStream.ok
    THEN Ret(Fallback(s),
             Errorf("ConfigReadError", "ioutil.ReadFile(file:%s) = error:%v",
                    <<logConfFile, confFileStream.err>>))
    ELSE LET doc == confFileStream.doc IN
    IF ~doc.parses
    THEN Ret(Fallback(s),
             Errorf("ConfigParseError", "yaml.Unmarshal(file:%s) = error:%v",
                    <<logConfFile, <<"yaml", logConfFile, "cannot unmarshal">> >>))
    ELSE LET \* logConfig: the level key allocates the config's AtomicLevel
             s1 == IF doc.hasLevel
                   THEN [s EXCEPT !.atomicLevels =
                                     Append(@, LevelSet(doc.level).level)]
                   ELSE s
             logConfig ==
                [LogConfig |-> ConfOf(IF doc.hasLevel THEN NewCell(s) ELSE 0,
                                      doc.encoding),
                 Rolling |-> doc.rolling]
         IN  Ret(InitLoggerWithRolling(s1, logConfig.LogConfig,
                                       RollingPtr(logConfig.Rolling)),
                 NoError)

\* SetLogger(log)
SetLogger(s, log) ==
    gettySetLogger([s EXCEPT !.logger = log, !.installs = @ + 1])

\* GetLogger()
GetLogger(s) == s.logger

\* (*DubboLogger).SetLoggerLevel parsing the name and leaving the level alone
DubboSetLoggerLevelDropped(s, dl, level) == s

\* (*DubboLogger).SetLoggerLevel(level)
DubboSetLoggerLevel(s, dl, level) ==
    LET l == LevelSet(level) IN
    IF l.ok THEN [s EXCEPT !.atomicLevels[dl.cell] = l.level] ELSE s

\* SetLoggerLevel reporting whether the level was parsed
SetLoggerLevelParsed(s, level) ==
    IF IsOpsLogger(s.logger)
    THEN Ret(DubboSetLoggerLevel(s, s.logger, level), LevelSet(level).ok)
    ELSE Ret(s, FALSE)

\* SetLoggerLevel(level)
SetLoggerLevel(s, level) ==
    IF IsOpsLogger(s.logger)
    THEN Ret(DubboSetLoggerLevel(s, s.logger, level), TRUE)
    ELSE Ret(s, FALSE)

\* zapLoggerConfig.Level.Level(): the threshold the cores of zap logger z read
Threshold(s, z) == s.atomicLevels[s.zapLoggers[z].cell]

\* GetLogger().Debug / Info / Warn / Error / Fatal: the sinks written, or
\* "backend" for a caller's own backend
LogCall(s, level) ==
    LET l == GetLogger(s) IN
    CASE l.kind = "nil" -> Ret([s EXCEPT !.status = "panicked"], {})
      [] l.kind = "custom" -> Ret(s, {"backend"})
      [] OTHER ->
            Ret([s EXCEPT !.status =
                    IF level = FatalLevel THEN "exited" ELSE @],
                zapCores(level, Threshold(s, l.zap)))

\* ------------------------------------------------- the calls, one by one

\* what a caller passes: the configs and rolling sections it holds
CallerConfs == {NilConf, ConfOf(1, "json"), ConfOf(0, "")}
CallerRollings == {NilRollingPtr, RollingPtr(CustomRolling), RollingPtr(ZeroRolling)}

\* the loggers a caller can hand to SetLogger: nil, its own backend, a
\* *DubboLogger it got from GetLogger, or the Logger embedded in one
LoggerInputs ==
    {NilLogger, CustomLogger}
    \cup {DubboLoggerOf(z, zapLoggers[z].cell) : z \in 1..Len(zapLoggers)}
    \cup {SugarOf(z) : z \in 1..Len(zapLoggers)}

\* the record of a call
Op(op, s) ==
    [op |-> op, path |-> <<>>, name |-> "", level |-> InfoLevel,
     log |-> NilLogger, conf |-> NilConf, rolling |-> NilRollingPtr,
     err |-> NoError, ok |-> FALSE, sinks |-> {},
     installs |-> s.installs, panicked |-> s.status = "panicked"]

\* the program state after a handler
Becomes(s) ==
    /\ logger' = s.logger
    /\ gettyLogger' = s.gettyLogger
    /\ zapLoggers' = s.zapLoggers
    /\ atomicLevels' = s.atomicLevels
    /\ status' = s.status

CanBuild == Len(zapLoggers) < MaxBuilds

InitLogAct ==
    /\ status = "running" /\ CanBuild
    /\ \E p \in Paths :
          LET r == InitLog(Cur, p) IN
          /\ Becomes(r.st)
          /\ lastOp' = [Op("InitLog", r.st) EXCEPT !.path = p, !.err = r.ret]
    /\ UNCHANGED concVars

InitLoggerWithRollingAct ==
    /\ status = "running" /\ CanBuild
    /\ \E conf \in CallerConfs, rolling \in CallerRollings :
          LET s == InitLoggerWithRolling(Cur, conf, rolling) IN
          /\ Becomes(s)
          /\ lastOp' = [Op("InitLoggerWithRolling", s) EXCEPT
                            !.conf = conf, !.rolling = rolling]
    /\ UNCHANGED concVars

InitLoggerAct ==
    /\ status = "running" /\ CanBuild
    /\ \E conf \in CallerConfs :
          LET s == InitLogger(Cur, conf) IN
          /\ Becomes(s)
          /\ lastOp' = [Op("InitLogger", s) EXCEPT !.conf = conf]
    /\ UNCHANGED concVars

SetLoggerAct ==
    /\ status = "running"
    /\ \E log \in LoggerInputs :
          LET s == SetLogger(Cur, log) IN
          /\ Becomes(s)
          /\ lastOp' = [Op("SetLogger", s) EXCEPT !.log = log]
    /\ UNCHANGED concVars

GetLoggerAct ==
    /\ status = "running"
    /\ Becomes(Cur)
    /\ lastOp' = [Op("GetLogger", Cur) EXCEPT !.log = GetLogger(Cur)]
    /\ UNCHANGED concVars

SetLoggerLevelAct ==
    /\ status = "running"
    /\ \E name \in LevelNames :
          LET r == SetLoggerLevel(Cur, name) IN
          /\ Becomes(r.st)
          /\ lastOp' = [Op("SetLoggerLevel", r.st) EXCEPT !.name = name, !.ok = r.ret]
    /\ UNCHANGED concVars

LogAct ==
    /\ status = "running"
    /\ \E level \in RecordLevels :
          LET r == LogCall(Cur, level) IN
          /\ Becomes(r.st)
          /\ lastOp' = [Op("Log", r.st) EXCEPT !.level = level, !.sinks = r.ret]
    /\ UNCHANGED concVars

\* ------------------------------------------------------------------- init

\* the heap before the package is loaded: no logger, and the AtomicLevel of
\* the config the caller will pass (zap.NewAtomicLevelAt(zap.InfoLevel))
Blank == St(NilLogger, NilLogger, <<>>, <<InfoLevel>>, "running", 0)

\* the paths init() may find in the environment or on the command line
InitPaths == {PathEmpty, PathLog}

\* func init(): InitLog(*logConfFile), its error only printed
PackageInit(p) == InitLog(Blank, p)

ConcInit ==
    /\ cw = [logger |-> [typ |-> "none", data |-> 0],
             getty |-> [typ |-> "none", data |-> 0]]
    /\ pc = <<>>
    /\ reg = <<>>

Init ==
    /\ \E p \in InitPaths :
          LET r == PackageInit(p) IN
          /\ logger = r.st.logger
          /\ gettyLogger = r.st.gettyLogger
          /\ zapLoggers = r.st.zapLoggers
          /\ atomicLevels = r.st.atomicLevels
          /\ status = r.st.status
          /\ lastOp = [Op("init", r.st) EXCEPT !.path = p, !.err = r.ret]
    /\ ConcInit

Next ==
    \/ InitLogAct
    \/ InitLoggerWithRollingAct
    \/ InitLoggerAct
    \/ SetLoggerAct
    \/ GetLoggerAct
    \/ SetLoggerLevelAct
    \/ LogAct

Spec == Init /\ [][Next]_vars

\* ------------------------------------------ the calls, from goroutines

\* An interface value is two machine words, the dynamic type and the data
\* pointer. `logger` and getty's slot are plain variables: a goroutine writes
\* and reads them one word at a time, with nothing ordering it against others.

Installers == {"g1", "g2"}
Readers == {"r1"}
Words == {"typ", "data"}

IfaceOf(typ, data) == [typ |-> typ, data |-> data]

\* the logger init() installed
InitialIface == IfaceOf("*DubboLogger", "init")

\* what an installing goroutine installs: SetLogger(its own backend),
\* SetLogger(GetLogger().(*DubboLogger).Logger), or the *DubboLogger that
\* InitLoggerWithRolling (called directly, by InitLogger or by InitLog) builds
InstallCalls(g) ==
    {[op |-> "SetLogger", val |-> IfaceOf("*backend", g)],
     [op |-> "SetLogger", val |-> IfaceOf("*zap.SugaredLogger", "init")],
     [op |-> "InitLoggerWithRolling", val |-> IfaceOf("*DubboLogger", g)]}

NoIface == IfaceOf("none", "none")

ConcStart ==
    /\ cw = [logger |-> InitialIface, getty |-> InitialIface]
    /\ pc = [g \in Installers \cup Readers |-> "start"]
    /\ reg = [g \in Installers \cup Readers |->
                [val |-> NoIface, arg |-> NoIface, todo |-> {}]]

\* the goroutine enters SetLogger / InitLoggerWithRolling with its value
Begin(g) ==
    /\ pc[g] = "start"
    /\ \E c \in InstallCalls(g) :
          reg' = [reg EXCEPT ![g] = [val |-> c.val, arg |-> NoIface, todo |-> Words]]
    /\ pc' = [pc EXCEPT ![g] = "store"]
    /\ UNCHANGED <<cw, seqVars>>

\* logger = log: one word of the slot is written
StoreLoggerWord(g) ==
    /\ pc[g] = "store"
    /\ \E w \in reg[g].todo :
          /\ cw' = [cw EXCEPT !.logger[w] = reg[g].val[w]]
          /\ reg' = [reg EXCEPT ![g].todo = IF @ = {w} THEN Words ELSE @ \ {w}]
          /\ pc' = [pc EXCEPT ![g] = IF reg[g].todo = {w} THEN "load" ELSE "store"]
    /\ UNCHANGED seqVars

\* getty.SetLogger(logger): the argument is read from the slot, word by word
LoadLoggerWord(g) ==
    /\ pc[g] = "load"
    /\ \E w \in reg[g].todo :
          /\ reg' = [reg EXCEPT ![g].arg[w] = cw.logger[w],
                                ![g].todo = IF @ = {w} THEN Words ELSE @ \ {w}]
          /\ pc' = [pc EXCEPT ![g] = IF reg[g].todo = {w} THEN "forward" ELSE "load"]
    /\ UNCHANGED <<cw, seqVars>>

\* getty.SetLogger: getty's slot is written, word by word
StoreGettyWord(g) ==
    /\ pc[g] = "forward"
    /\ \E w \in reg[g].todo :
          /\ cw' = [cw EXCEPT !.getty[w] = reg[g].arg[w]]
          /\ reg' = [reg EXCEPT ![g].todo = @ \ {w}]
          /\ pc' = [pc EXCEPT ![g] = IF reg[g].todo = {w} THEN "done" ELSE "forward"]
    /\ UNCHANGED seqVars

\* the reading goroutine enters GetLogger (or a log call, or SetLoggerLevel)
BeginRead(r) ==
    /\ pc[r] = "start"
    /\ reg' = [reg EXCEPT ![r].todo = Words]
    /\ pc' = [pc EXCEPT ![r] = "read"]
    /\ UNCHANGED <<cw, seqVars>>

\* return logger: one word of the slot is read
ReadLoggerWord(r) ==
    /\ pc[r] = "read"
    /\ \E w \in reg[r].todo :
          /\ reg' = [reg EXCEPT ![r].val[w] = cw.logger[w], ![r].todo = @ \ {w}]
          /\ pc' = [pc EXCEPT ![r] = IF reg[r].todo = {w} THEN "done" ELSE "read"]
    /\ UNCHANGED <<cw, seqVars>>

InitConc ==
    /\ LET r == PackageInit(PathEmpty) IN
          /\ logger = r.st.logger
          /\ gettyLogger = r.st.gettyLogger
          /\ zapLoggers = r.st.zapLoggers
          /\ atomicLevels = r.st.atomicLevels
          /\ status = r.st.status
          /\ lastOp = [Op("init", r.st) EXCEPT !.err = r.ret]
    /\ ConcStart

NextConc ==
    \/ \E g \in Installers : Begin(g)
    \/ \E g \in Installers : StoreLoggerWord(g)
    \/ \E g \in Installers : LoadLoggerWord(g)
    \/ \E g \in Installers : StoreGettyWord(g)
    \/ \E r \in Readers : BeginRead(r)
    \/ \E r \in Readers : ReadLoggerWord(r)

SpecConc == InitConc /\ [][NextConc]_vars

\* ----------------------------------------------------------------- claims

\* the logger in the slot is backed by a zap logger this package built
ZapBacked(l) == l.kind \in {"dubbo", "sugar"}

\* the threshold the cores of the logger in the slot read
ActiveThreshold == atomicLevels[zapLoggers[logger.zap].cell]

\* a call of InitLog that returned
InitLogReturned == lastOp.op = "InitLog" /\ ~lastOp.panicked

\* the outcome the precedence of the claim gives a path
ExpectedOutcome(p) ==
    IF p = <<>> THEN "ConfigMissing"
    ELSE IF Ext(p) # <<".", "y", "m", "l">> THEN "ConfigExtensionInvalid"
    ELSE IF FileSystem(p).kind # "file" THEN "ConfigReadError"
    ELSE IF ~FileSystem(p).doc.parses THEN "ConfigParseError"
    ELSE "nil"

\* the precedence itself, for the calls of InitLog that return
InitLogPrecedence ==
    InitLogReturned =>
        /\ lastOp.err.code = ExpectedOutcome(lastOp.path)
        /\ lastOp.err.code = "ConfigExtensionInvalid" =>
                lastOp.err.args = <<lastOp.path>>
        /\ lastOp.err.code = "ConfigReadError" =>
                /\ lastOp.err.args[1] = lastOp.path
                /\ lastOp.err.args[2] = ReadFile(lastOp.path).err

\* C1: every InitLog call ends in exactly one of the five outcomes, chosen in
\* the order empty path, extension, readability, parse, success; the
\* extension error embeds the path and the read error the I/O failure text.
C1_InitLogOutcome ==
    lastOp.op = "InitLog" =>
        /\ ~lastOp.panicked
        /\ InitLogPrecedence

\* C7: InitLoggerWithRolling (directly, through InitLogger or through InitLog
\* on a file that parses) never crashes and installs a logger, whatever the
\* configuration; InitLog on a file that parses returns no error.
C7_InitNeverFails ==
    /\ lastOp.op \in {"InitLoggerWithRolling", "InitLogger", "InitLog"} =>
          /\ ~lastOp.panicked
          /\ status = "running"
          /\ lastOp.installs = 1
          /\ logger.kind = "dubbo"
    /\ (lastOp.op = "InitLog" /\ ReadFile(lastOp.path).ok
            /\ Ext(lastOp.path) = <<".", "y", "m", "l">>
            /\ ReadFile(lastOp.path).doc.parses) =>
          lastOp.err = NoError

\* the call gave no rolling section
NoRollingSupplied ==
    \/ lastOp.op = "InitLoggerWithRolling" /\ lastOp.rolling.nil
    \/ lastOp.op = "InitLogger"
    \/ lastOp.op = "InitLog" /\ lastOp.err = NoError
          /\ ReadFile(lastOp.path).doc.rolling = ZeroRolling

\* the zap logger the last call built
LastBuilt == zapLoggers[Len(zapLoggers)]

\* C6: with no rolling section supplied the three file sinks are built from
\* ./logs, dubbo-error.log, dubbo-warn.log, dubbo-info.log, 30, 1, 3, false.
C6_DefaultRolling ==
    (NoRollingSupplied /\ ~lastOp.panicked) =>
        /\ LastBuilt.rolling =
              [LogFilePath |-> "./logs", ErrorFilename |-> "dubbo-error.log",
               WarnFilename |-> "dubbo-warn.log", InfoFilename |-> "dubbo-info.log",
               MaxSize |-> 30, MaxBackups |-> 1, MaxAge |-> 3, Compress |-> FALSE]
        /\ LastBuilt.info.Filename = "./logs/dubbo-info.log"
        /\ LastBuilt.warn.Filename = "./logs/dubbo-warn.log"
        /\ LastBuilt.error.Filename = "./logs/dubbo-error.log"

\* C9: every InitLog call that returns, in each of its five outcomes, made
\* exactly one installation and left getty's slot holding the logger in
\* `logger`; so did every SetLogger, InitLogger and InitLoggerWithRolling call.
C9_OneInstallSlotsAgree ==
    /\ InitLogReturned =>
          /\ lastOp.err.code \in ErrorCodes \cup {"nil"}
          /\ lastOp.installs = 1
          /\ gettyLogger = logger
    /\ (lastOp.op \in {"SetLogger", "InitLogger", "InitLoggerWithRolling"}
            /\ ~lastOp.panicked) =>
          /\ lastOp.installs = 1
          /\ gettyLogger = logger
    /\ lastOp.op = "SetLogger" => logger = lastOp.log

\* C9 witness: InitLog failed on the extension after one installation, both
\* slots holding the default logger it built
C9_Witness ==
    /\ InitLogReturned
    /\ lastOp.err.code = "ConfigExtensionInvalid"
    /\ lastOp.installs = 1
    /\ Len(zapLoggers) = MaxBuilds
    /\ gettyLogger = DubboLoggerOf(Len(zapLoggers), LastBuilt.cell)

\* InitLog returned one of its four errors
InitLogFailed == InitLogReturned /\ lastOp.err.code \in ErrorCodes

\* the sinks a logger with every file sink and the console writes a record
\* of level r to, at threshold debug
AllSinksAtDebug(r) ==
    {"console"}
    \cup (IF r = InfoLevel THEN {"info"} ELSE {})
    \cup (IF r = WarnLevel THEN {"warn"} ELSE {})
    \cup (IF r > WarnLevel THEN {"error"} ELSE {})

\* C2 as stated: a failed InitLog leaves a console-only logger at threshold
\* debug installed, and after any InitLog call a logger is installed and a
\* log call on it is usable.
C2_FallbackConsoleOnly ==
    /\ InitLogFailed =>
          /\ logger.kind = "dubbo"
          /\ ActiveThreshold = DebugLevel
          /\ \A r \in RecordLevels : LogCall(Cur, r).ret \subseteq {"console"}
    /\ lastOp.op = "InitLog" =>
          /\ logger # NilLogger
          /\ \A r \in RecordLevels : LogCall(Cur, r).st.status # "panicked"

\* C2 amended: a failed InitLog, from any prior state, leaves installed the
\* default logger it built in that call: threshold debug, the console sink and
\* the three file sinks under ./logs with the default rolling configuration;
\* a log call on it does not panic.
C2_FallbackDefaultLogger ==
    InitLogFailed =>
        /\ lastOp.installs = 1
        /\ logger = DubboLoggerOf(Len(zapLoggers), LastBuilt.cell)
        /\ ActiveThreshold = DebugLevel
        /\ LastBuilt.rolling = DefaultRolling
        /\ \A r \in RecordLevels :
              /\ LogCall(Cur, r).st.status # "panicked"
              /\ LogCall(Cur, r).ret = AllSinksAtDebug(r)

\* C2 witness: InitLog failed on unparsable content and the default logger,
\* writing an info record to the console and to ./logs/dubbo-info.log, is
\* installed
C2_Witness ==
    /\ InitLogFailed
    /\ lastOp.err.code = "ConfigParseError"
    /\ logger.kind = "dubbo"
    /\ LogCall(Cur, InfoLevel).ret = {"console", "info"}
    /\ LastBuilt.info.Filename = "./logs/dubbo-info.log"

\* the level a name stands for (zap's spellings, "" standing for info)
NameParses(name) == name \in {"debug", "info", "warn", "error", "Warn", ""}
NamedLevel(name) ==
    CASE name = "debug" -> DebugLevel
      [] name \in {"warn", "Warn"} -> WarnLevel
      [] name = "error" -> ErrorLevel
      [] OTHER -> InfoLevel

\* C3: SetLoggerLevel(name) returns true exactly when the logger in the slot
\* is level-adjustable, whether or not name parses; the logger's level becomes
\* the parsed level when it is adjustable and name parses, and no level
\* changes otherwise; the slots are left alone.
C3_SetLoggerLevel ==
    [][lastOp'.op = "SetLoggerLevel" =>
          /\ lastOp'.ok = (logger.kind = "dubbo")
          /\ logger' = logger /\ gettyLogger' = gettyLogger
          /\ IF logger.kind = "dubbo" /\ NameParses(lastOp'.name)
             THEN atomicLevels' =
                    [atomicLevels EXCEPT ![logger.cell] = NamedLevel(lastOp'.name)]
             ELSE atomicLevels' = atomicLevels]_vars

\* C3 witness: SetLoggerLevel returned true for a name that does not parse
C3_Witness ==
    /\ lastOp.op = "SetLoggerLevel"
    /\ lastOp.name = "trace"
    /\ lastOp.ok
    /\ logger.kind = "dubbo"

\* C4: a built logger writes a record of level r at threshold L to the info
\* file iff r is info and info >= L, to the warn file iff r is warn and
\* warn >= L, to the error file iff r > warn and warn >= L, and to the
\* console iff r >= L.
C4_SinkRouting ==
    /\ \A r \in Levels, L \in Levels :
          /\ ("info" \in zapCores(r, L)) <=> (r = InfoLevel /\ InfoLevel >= L)
          /\ ("warn" \in zapCores(r, L)) <=> (r = WarnLevel /\ WarnLevel >= L)
          /\ ("error" \in zapCores(r, L)) <=> (r > WarnLevel /\ WarnLevel >= L)
          /\ ("console" \in zapCores(r, L)) <=> (r >= L)
    /\ (lastOp.op = "Log" /\ ZapBacked(logger)) =>
          LET r == lastOp.level
              L == ActiveThreshold
          IN  lastOp.sinks =
                  {s \in Sinks :
                      \/ s = "info" /\ r = InfoLevel /\ InfoLevel >= L
                      \/ s = "warn" /\ r = WarnLevel /\ WarnLevel >= L
                      \/ s = "error" /\ r > WarnLevel /\ WarnLevel >= L
                      \/ s = "console" /\ r >= L}

\* C4 witness: an error record at threshold error reached the console and
\* not the error file
C4_Witness ==
    /\ lastOp.op = "Log"
    /\ ZapBacked(logger)
    /\ lastOp.level = ErrorLevel
    /\ ActiveThreshold = ErrorLevel
    /\ lastOp.sinks = {"console"}

\* the sinks a record of level r would be written to now
Verbosity(r) == LogCall(Cur, r).ret

\* C5: once SetLoggerLevel has set the level of the installed logger to L',
\* a record below L' is written to no sink and a record at or above L' to the
\* console; log calls and reads of the slot leave that as it is, and so do
\* SetLogger of the Logger embedded in the installed logger and a
\* SetLoggerLevel call that returns false.
C5_LevelTakesEffect ==
    /\ [](lastOp.op = "SetLoggerLevel" /\ lastOp.ok /\ NameParses(lastOp.name) =>
            \A r \in RecordLevels :
               IF r < NamedLevel(lastOp.name) THEN Verbosity(r) = {}
               ELSE "console" \in Verbosity(r))
    /\ [][(\/ lastOp'.op \in {"Log", "GetLogger"}
           \/ lastOp'.op = "SetLogger" /\ logger.kind = "dubbo"
                 /\ lastOp'.log = SugarOf(logger.zap)
           \/ lastOp'.op = "SetLoggerLevel" /\ ~lastOp'.ok) =>
            \A r \in RecordLevels : Verbosity(r)' = Verbosity(r)]_vars

\* C5 witness: the logger InitLog built from l.yml, after SetLoggerLevel("info"):
\* a debug record goes nowhere and an info record is written
C5_Witness ==
    /\ lastOp.op = "SetLoggerLevel" /\ lastOp.name = "info" /\ lastOp.ok
    /\ logger.kind = "dubbo"
    /\ zapLoggers[logger.zap].rolling = CustomRolling
    /\ Verbosity(DebugLevel) = {}
    /\ Verbosity(InfoLevel) = {"console", "info"}

\* the interface values some goroutine has installed, or is installing
Installed ==
    {InitialIface} \cup {reg[g].val : g \in {h \in Installers : pc[h] # "start"}}

\* C8: a reader of the slot gets the logger installed before or the one
\* installed after, whole: never the type of one with the data of another.
C8_NoTornRead ==
    \A r \in Readers : pc[r] = "done" => reg[r].val \in Installed

\* C10: once every installing goroutine has finished, getty's slot holds the
\* logger the package's slot holds.
C10_SlotsAgreeAfterInstalls ==
    (\A g \in Installers : pc[g] = "done") => cw.getty = cw.logger

====
